---- MODULE Spec2Model ----
(***************************************************************************)
(* Model of the LLM router (LLMRouter, src/unnamed/part_004 lines 321-572) *)
(* and of the provider adapters' stream() generators                       *)
(* (src/unnamed/part_005).                                                 *)
(*                                                                         *)
(* The router runs on a single JavaScript thread: code between two awaits  *)
(* runs without interruption, and every await hands control to any other   *)
(* pending call.  Each action below is one such run-to-next-await segment  *)
(* of invoke(), stream() or selectProvider().                              *)
(***************************************************************************)
EXTENDS Integers, Sequences, FiniteSets, TLC

(***************************************************************************)
(* Bounds of the model.                                                    *)
(***************************************************************************)
NumRequests == 2        \* requests in flight concurrently under Spec
RateCalls == 4          \* requests issued one after the other under SpecRate
RateTicks == 5          \* clock advances under SpecRate
MaxChunks == 2          \* chunks an adapter stream may yield per call
MaxLimit == 2           \* largest maxConcurrent / rateLimitPerMinute configured
MaxFrames == 3          \* frames the backend sends on one streamed response
MaxTokenHalves == 4     \* largest token count handed to getCost, in half thousands
MaxMessages == 3        \* messages of a request handed to the Anthropic adapter
TickMs == 20000         \* milliseconds between two readings of the clock

(***************************************************************************)
(* Program constants.                                                      *)
(***************************************************************************)
WindowMs == 60000       \* part_004:482  now - 60000
DefaultPriority == 999  \* part_004:429  (priority || 999)
PerTokens == 1000       \* part_005:87   inputTokens / 1000

NONE == "none"

VARIABLES
    providerConfigs,    \* ProviderConfig[], sorted by the constructor
    providers,          \* keys of the providers Map, in insertion order
    activeRequests,     \* Map<string, number>
    rateLimitTracker,   \* Map<string, number[]>
    now,                \* Date.now()
    pc,                 \* per request: where its call is suspended
    kind,               \* per request: "invoke" or "stream"
    idx,                \* per request: position in sortedProviders
    rateOk,             \* per request: pending result of checkRateLimit
    sel,                \* per request: what selectProvider returned
    held,               \* per request: backend entered and not yet left
    enters,             \* per request: backends entered during this call
    leaves,             \* per request: backends left during this call
    adapterCalls,       \* per request: adapters called during this call
    costs,              \* per request: number of trackCost calls
    delivered,          \* per request: chunks yielded to the consumer
    outcome,            \* per request: how the last call ended
    passLog,            \* per backend: passed checks of the trailing minute
    slots,              \* request slots in use
    callsLeft,          \* per slot: calls it may still start
    horizon,            \* last instant the modelled clock reaches
    adapter,            \* adapter whose stream() generator is studied
    apc,                \* where that generator is suspended
    wire,               \* bytes the backend has sent and no read has returned
    lines,              \* lines of the current read not yet looked at
    emitted,            \* chunks the generator has yielded
    locked,             \* whether the generator holds the reader's lock
    sent,               \* history: every byte of the backend's response
    aligned,            \* history: every read so far ended on a line feed
    usage,              \* token usage handed to getCost
    cost,               \* the values getCost has returned
    supplied,           \* history: the configs as handed to the constructor
    transport,          \* the connection behind the generator's reader
    messages,           \* request.messages handed to the Anthropic adapter
    body,               \* the request body that adapter has submitted
    status,             \* the last snapshot getStatus() returned
    received,           \* chunks Router.stream has yielded to its consumer
    rpc                 \* where the Router.stream generator under study stands

vars == <<providerConfigs, providers, activeRequests, rateLimitTracker, now,
          pc, kind, idx, rateOk, sel, held, enters, leaves, adapterCalls,
          costs, delivered, outcome, passLog, slots, callsLeft, horizon,
          adapter, apc, wire, lines, emitted, locked, sent, aligned,
          usage, cost, supplied, transport, messages, body, status,
          received, rpc>>

\* state of the adapter generator
adapterVars == <<adapter, apc, wire, lines, emitted, locked, sent, aligned,
                 transport>>

\* state of the cost computation
costVars == <<usage, cost>>

\* state of the Anthropic request reshaping
reshapeVars == <<messages, body>>

\* state of the Router.stream pass-through under study
passVars == <<received, rpc>>

Requests == 1..NumRequests
ProviderNames == {"openai", "anthropic", "google"}

(***************************************************************************)
(* Array.prototype.sort with a comparator (a, b) => key(a) - key(b): a     *)
(* stable sort by ascending key.  The sequence holds records [k, v].       *)
(***************************************************************************)
\* faulty variant: an element goes in front of the elements of equal key
InsertByKey_Unstable(x, s) ==
    LET n == Cardinality({i \in 1..Len(s) : s[i].k < x.k})
    IN  SubSeq(s, 1, n) \o <<x>> \o SubSeq(s, n + 1, Len(s))

InsertByKey(x, s) ==
    LET n == Cardinality({i \in 1..Len(s) : s[i].k <= x.k})
    IN  SubSeq(s, 1, n) \o <<x>> \o SubSeq(s, n + 1, Len(s))

RECURSIVE StableSort(_)
StableSort(s) ==
    IF s = <<>> THEN <<>>
    ELSE CHOOSE out \in {InsertByKey(s[Len(s)], sorted) :
                            sorted \in {StableSort(SubSeq(s, 1, Len(s) - 1))}} : TRUE

Values(s) == [i \in 1..Len(s) |-> s[i].v]

\* constructor: configs.sort((a, b) => a.priority - b.priority)
SortConfigs(configs) ==
    Values(StableSort([i \in 1..Len(configs) |->
                          [k |-> configs[i].priority, v |-> configs[i]]]))

\* faulty variant: the enabled flag is not looked at
InitializeProviders_All(configs) == [i \in 1..Len(configs) |-> configs[i].name]

\* initializeProviders: one Map entry per enabled config, in sorted order
RECURSIVE InitializeProviders(_)
InitializeProviders(configs) ==
    IF configs = <<>> THEN <<>>
    ELSE LET rest == InitializeProviders(Tail(configs))
         IN  IF Head(configs).enabled THEN <<Head(configs).name>> \o rest
             ELSE rest

ProviderSet == {providers[i] : i \in 1..Len(providers)}

\* this.providerConfigs.find((c) => c.name === name)
HasConfig(name) == \E i \in 1..Len(providerConfigs) : providerConfigs[i].name = name
ConfigOf(name) ==
    LET i == CHOOSE j \in 1..Len(providerConfigs) :
                 /\ providerConfigs[j].name = name
                 /\ \A h \in 1..(j - 1) : providerConfigs[h].name # name
    IN  providerConfigs[i]

\* (config?.priority || 999): a missing config and a priority of 0 both give 999
EffectivePriority(name) ==
    IF ~HasConfig(name) \/ ConfigOf(name).priority = 0
    THEN DefaultPriority
    ELSE ConfigOf(name).priority

\* selectProvider: Array.from(this.providers.entries()).sort(...)
SortedProviders ==
    Values(StableSort([i \in 1..Len(providers) |->
                          [k |-> EffectivePriority(providers[i]), v |-> providers[i]]]))

\* isProviderAvailable: true iff the providers Map holds the name (the Map
\* never changes after construction, so the answer is the same at the call
\* and when the await resumes)
isProviderAvailable(name) == name \in ProviderSet

\* faulty variant: a window of 6 seconds instead of 60
RecentRequests_ShortWindow(tracker, t) ==
    SelectSeq(tracker, LAMBDA x : x > t - 6000)

\* tracker.filter((t) => t > oneMinuteAgo)
RecentRequests(tracker, t) == SelectSeq(tracker, LAMBDA x : x > t - WindowMs)

\* faulty variant: the check passes while the window already holds the limit
RateLimitPasses_OffByOne(name, t) ==
    /\ HasConfig(name)
    /\ Len(RecentRequests(rateLimitTracker[name], t)) <= ConfigOf(name).rateLimitPerMinute

\* checkRateLimit, the decision: false without a config or with a full window
RateLimitPasses(name, t) ==
    /\ HasConfig(name)
    /\ Len(RecentRequests(rateLimitTracker[name], t)) < ConfigOf(name).rateLimitPerMinute

\* faulty variant: the timestamp is pushed and the list stored unfiltered
trackRequest_NoPrune(tracker, t) == Append(tracker, t)

\* trackRequest: push Date.now(), keep the trailing minute, store (it runs in
\* the same uninterrupted segment as checkRateLimit and reads the same instant)
trackRequest(tracker, t) == RecentRequests(Append(tracker, t), t)

\* faulty variant: the request is tracked before the limit is tested
checkRateLimit_TrackRejected(name, t) ==
    [rateLimitTracker EXCEPT ![name] = trackRequest(@, t)]

\* faulty variant: a passing check does not record the request
checkRateLimit_NoRecord(name, t) == rateLimitTracker

\* checkRateLimit, the stored window after the call
checkRateLimit(name, t) ==
    IF RateLimitPasses(name, t)
    THEN [rateLimitTracker EXCEPT ![name] = trackRequest(@, t)]
    ELSE rateLimitTracker

\* faulty variant: the capacity test compares with > instead of >=
AtCapacity_Strict(name) ==
    /\ HasConfig(name)
    /\ activeRequests[name] > ConfigOf(name).maxConcurrent

\* selectProvider's capacity test: config && activeCount >= config.maxConcurrent
AtCapacity(name) ==
    /\ HasConfig(name)
    /\ activeRequests[name] >= ConfigOf(name).maxConcurrent

\* faulty variant: the body of the decrement copied without its clamp
incrementActiveRequests_CopiedDecrement(active, name) ==
    [active EXCEPT ![name] = @ - 1]

incrementActiveRequests(active, name) == [active EXCEPT ![name] = @ + 1]

\* faulty variant: the new count is computed and not stored
decrementActiveRequests_NotStored(active, name) == active

decrementActiveRequests(active, name) ==
    [active EXCEPT ![name] = IF @ - 1 > 0 THEN @ - 1 ELSE 0]

(***************************************************************************)
(* Configurations handed to the constructor.  Every configuration names    *)
(* each backend at most once.                                              *)
(***************************************************************************)
Priorities == {-1, 0, 1}

Config(n, e, p, m, l) ==
    [name |-> n, enabled |-> e, priority |-> p, maxConcurrent |-> m,
     rateLimitPerMinute |-> l]

\* two backends: every priority assignment and every enabled flag
TwoBackends ==
    { <<Config("openai", e1, p1, 1, MaxLimit), Config("anthropic", e2, p2, 1, MaxLimit)>> :
        <<e1, e2, p1, p2>> \in BOOLEAN \X BOOLEAN \X Priorities \X Priorities }

\* three backends, priorities 1, 2, 3 in every configuration order of the first
\* two, the first one disabled or not, the second one with a tight rate limit
ThreeBackends ==
    { <<Config("openai", e, p, MaxLimit, MaxLimit),
        Config("anthropic", TRUE, 3 - p, 1, 1),
        Config("google", TRUE, 3, MaxLimit, MaxLimit)>> :
        <<e, p>> \in BOOLEAN \X {1, 2} }

\* two enabled backends of equal priority, the second of the other
\* configurations supplied first
TiedBackends ==
    { <<Config("anthropic", TRUE, p, 1, MaxLimit), Config("openai", TRUE, p, 1, MaxLimit)>> :
        p \in Priorities }

ConfigChoices == TwoBackends \cup ThreeBackends \cup TiedBackends

\* rate-limit study: one or two backends, every rate limit up to MaxLimit
RateConfigs ==
    { <<Config("openai", TRUE, 1, 1, n)>> : n \in 0..MaxLimit }
    \cup
    { <<Config("openai", TRUE, 1, 1, n1), Config("anthropic", TRUE, 2, 1, n2)>> :
        <<n1, n2>> \in (1..MaxLimit) \X (1..MaxLimit) }

\* zero-limit study: a backend with maxConcurrent 0, rateLimitPerMinute 0 or
\* both, alone or before or after a backend with limits of MaxLimit
ZeroLimits == {<<0, MaxLimit>>, <<MaxLimit, 0>>, <<0, 0>>}
ZeroConfigs ==
    { <<Config("openai", TRUE, 1, z[1], z[2])>> : z \in ZeroLimits }
    \cup
    { <<Config("openai", TRUE, p, z[1], z[2]),
        Config("anthropic", TRUE, 3 - p, MaxLimit, MaxLimit)>> :
        <<p, z>> \in {1, 2} \X ZeroLimits }

\* names of the configs initializeProviders gives an adapter and counters
EnabledNames(configs) ==
    {configs[i].name : i \in {j \in 1..Len(configs) : configs[j].enabled}}

\* no adapter generator is under study
NoAdapter ==
    /\ adapter = NONE
    /\ apc = "off"
    /\ wire = <<>>
    /\ lines = <<>>
    /\ emitted = <<>>
    /\ locked = FALSE
    /\ sent = <<>>
    /\ aligned = TRUE
    /\ transport = NONE

\* no cost computation is under study
NoCost ==
    /\ usage = NONE
    /\ cost = <<>>

\* no Router.stream pass-through is under study
NoPass ==
    /\ received = <<>>
    /\ rpc = "off"

\* no request is handed to the Anthropic adapter
NoReshape ==
    /\ messages = <<>>
    /\ body = [invoke |-> <<>>, stream |-> <<>>]

\* the router with the given configurations, request slots, calls per slot
\* and clock advances
RouterInit(choices, reqs, ncalls, ticks) ==
    /\ slots = reqs
    /\ callsLeft = [r \in Requests |-> ncalls]
    /\ horizon = ticks * TickMs
    /\ status = <<>>
    /\ \E configs \in choices :
          /\ supplied = configs
          /\ providerConfigs = SortConfigs(configs)
          /\ providers = InitializeProviders(SortConfigs(configs))
          /\ activeRequests = [n \in EnabledNames(configs) |-> 0]
          /\ rateLimitTracker = [n \in EnabledNames(configs) |-> <<>>]
          /\ passLog = [n \in EnabledNames(configs) |-> <<>>]
    /\ now = 0
    /\ pc = [r \in Requests |-> "idle"]
    /\ kind = [r \in Requests |-> "invoke"]
    /\ idx = [r \in Requests |-> 0]
    /\ rateOk = [r \in Requests |-> FALSE]
    /\ sel = [r \in Requests |-> NONE]
    /\ held = [r \in Requests |-> NONE]
    /\ enters = [r \in Requests |-> <<>>]
    /\ leaves = [r \in Requests |-> <<>>]
    /\ adapterCalls = [r \in Requests |-> <<>>]
    /\ costs = [r \in Requests |-> 0]
    /\ delivered = [r \in Requests |-> 0]
    /\ outcome = [r \in Requests |-> NONE]

\* concurrent requests, one call each, at one instant of the clock
Init == RouterInit(ConfigChoices, Requests, 1, 0) /\ NoAdapter /\ NoCost /\ NoReshape
        /\ NoPass

\* variables no resumption of invoke, stream or selectProvider writes
configVars == <<providerConfigs, providers, slots, callsLeft, horizon, adapterVars,
                costVars, reshapeVars, supplied, status, passVars, passVars>>

\* a new call on slot r starts with a clean record
FreshCall(r, k) ==
    /\ kind' = [kind EXCEPT ![r] = k]
    /\ rateOk' = [rateOk EXCEPT ![r] = FALSE]
    /\ sel' = [sel EXCEPT ![r] = NONE]
    /\ enters' = [enters EXCEPT ![r] = <<>>]
    /\ leaves' = [leaves EXCEPT ![r] = <<>>]
    /\ adapterCalls' = [adapterCalls EXCEPT ![r] = <<>>]
    /\ costs' = [costs EXCEPT ![r] = 0]
    /\ delivered' = [delivered EXCEPT ![r] = 0]
    /\ outcome' = [outcome EXCEPT ![r] = NONE]

(***************************************************************************)
(* selectProvider, lines 425-460.  The loop suspends at                    *)
(* `await this.isProviderAvailable(name)` and at                           *)
(* `await this.checkRateLimit(name)`; the caller suspends at               *)
(* `await this.selectProvider(request)`.                                   *)
(***************************************************************************)

\* faulty variant: the loop stops one backend short
LoopAt_OffByOne(r, i) ==
    /\ idx' = [idx EXCEPT ![r] = i]
    /\ IF i < Len(SortedProviders)
       THEN pc' = [pc EXCEPT ![r] = "availCheck"]
       ELSE pc' = [pc EXCEPT ![r] = "selected"]

\* faulty variant: an exhausted list is walked again until a backend admits
LoopAt_Wait(r, i) ==
    IF i <= Len(SortedProviders)
    THEN /\ idx' = [idx EXCEPT ![r] = i]
         /\ pc' = [pc EXCEPT ![r] = "availCheck"]
    ELSE IF Len(SortedProviders) > 0
    THEN /\ idx' = [idx EXCEPT ![r] = 1]
         /\ pc' = [pc EXCEPT ![r] = "availCheck"]
    ELSE /\ idx' = [idx EXCEPT ![r] = i]
         /\ pc' = [pc EXCEPT ![r] = "selected"]

\* the loop reaches position i of sortedProviders: either it calls
\* isProviderAvailable and suspends, or the list is exhausted and it returns null
LoopAt(r, i) ==
    /\ idx' = [idx EXCEPT ![r] = i]
    /\ IF i <= Len(SortedProviders)
       THEN pc' = [pc EXCEPT ![r] = "availCheck"]
       ELSE pc' = [pc EXCEPT ![r] = "selected"]

\* invoke(request) is called: runs into selectProvider up to its first await
CallInvoke(r) ==
    /\ pc[r] \in {"idle", "done"}
    /\ callsLeft[r] > 0
    /\ callsLeft' = [callsLeft EXCEPT ![r] = @ - 1]
    /\ FreshCall(r, "invoke")
    /\ LoopAt(r, 1)
    /\ UNCHANGED <<providerConfigs, providers, slots, horizon, adapterVars, costVars,
                   reshapeVars, supplied, status, passVars,
                   activeRequests, rateLimitTracker, now, held, passLog>>

\* faulty variant: stream() written as an async function returning a
\* generator, so the call itself runs into selectProvider
CallStream_Eager(r) ==
    /\ pc[r] \in {"idle", "done"}
    /\ callsLeft[r] > 0
    /\ callsLeft' = [callsLeft EXCEPT ![r] = @ - 1]
    /\ FreshCall(r, "stream")
    /\ LoopAt(r, 1)
    /\ UNCHANGED <<providerConfigs, providers, slots, horizon, adapterVars, costVars,
                   reshapeVars, supplied, status, passVars,
                   activeRequests, rateLimitTracker, now, held, passLog>>

\* stream(request) is called: an async generator is created, no code runs
CallStream(r) ==
    /\ pc[r] \in {"idle", "done"}
    /\ callsLeft[r] > 0
    /\ callsLeft' = [callsLeft EXCEPT ![r] = @ - 1]
    /\ FreshCall(r, "stream")
    /\ pc' = [pc EXCEPT ![r] = "created"]
    /\ idx' = [idx EXCEPT ![r] = 0]
    /\ UNCHANGED <<providerConfigs, providers, slots, horizon, adapterVars, costVars,
                   reshapeVars, supplied, status, passVars,
                   activeRequests, rateLimitTracker, now, held, passLog>>

\* the consumer pulls the first chunk: the generator body starts
FirstPull(r) ==
    /\ pc[r] = "created"
    /\ LoopAt(r, 1)
    /\ UNCHANGED <<configVars, activeRequests, rateLimitTracker, now, kind, rateOk,
                   sel, held, enters, leaves, adapterCalls, costs, delivered,
                   outcome, passLog>>

\* the consumer drops the generator before pulling: return() on a generator
\* that has not started completes it without running its body
DropStream(r) ==
    /\ pc[r] = "created"
    /\ pc' = [pc EXCEPT ![r] = "done"]
    /\ outcome' = [outcome EXCEPT ![r] = "dropped"]
    /\ UNCHANGED <<configVars, activeRequests, rateLimitTracker, now, kind, idx,
                   rateOk, sel, held, enters, leaves, adapterCalls, costs,
                   delivered, passLog>>

\* history: the checks that passed during the 60 seconds ending at instant t
LogPass(log, t) == SelectSeq(Append(log, t), LAMBDA x : t - x < WindowMs)

\* resumes after `await isProviderAvailable(name)`; when available it calls
\* checkRateLimit (check and record, no await inside) and suspends on its result
ResumeAvailable(r) ==
    /\ pc[r] = "availCheck"
    /\ \E name \in {SortedProviders[idx[r]]} :
           IF ~isProviderAvailable(name)
           THEN /\ LoopAt(r, idx[r] + 1)
                /\ UNCHANGED <<rateLimitTracker, rateOk, passLog>>
           ELSE /\ pc' = [pc EXCEPT ![r] = "rateCheck"]
                /\ rateOk' = [rateOk EXCEPT ![r] = RateLimitPasses(name, now)]
                /\ rateLimitTracker' = checkRateLimit(name, now)
                /\ passLog' = IF RateLimitPasses(name, now)
                              THEN [passLog EXCEPT ![name] = LogPass(@, now)]
                              ELSE passLog
                /\ idx' = idx
    /\ UNCHANGED <<configVars, activeRequests, now, kind, sel, held, enters,
                   leaves, adapterCalls, costs, delivered, outcome>>

\* faulty variant: an admissible backend is noted and the loop goes on, so the
\* last admissible backend is the one returned
ResumeRateLimit_KeepsLooking(r) ==
    /\ pc[r] = "rateCheck"
    /\ \E name \in {SortedProviders[idx[r]]} :
           /\ LoopAt(r, idx[r] + 1)
           /\ IF ~rateOk[r] \/ AtCapacity(name)
              THEN sel' = sel
              ELSE sel' = [sel EXCEPT ![r] = name]
    /\ UNCHANGED <<configVars, activeRequests, rateLimitTracker, now, kind, rateOk,
                   held, enters, leaves, adapterCalls, costs, delivered, outcome,
                   passLog>>

\* faulty variant: a backend skipped for capacity gets its timestamp back
ResumeRateLimit_Refund(r) ==
    /\ pc[r] = "rateCheck"
    /\ \E name \in {SortedProviders[idx[r]]} :
           IF ~rateOk[r] \/ AtCapacity(name)
           THEN /\ LoopAt(r, idx[r] + 1)
                /\ sel' = sel
                /\ rateLimitTracker' =
                      IF rateOk[r]
                      THEN [rateLimitTracker EXCEPT
                               ![name] = SubSeq(@, 1, Len(@) - 1)]
                      ELSE rateLimitTracker
           ELSE /\ pc' = [pc EXCEPT ![r] = "selected"]
                /\ sel' = [sel EXCEPT ![r] = name]
                /\ idx' = idx
                /\ rateLimitTracker' = rateLimitTracker
    /\ UNCHANGED <<configVars, activeRequests, now, kind, rateOk,
                   held, enters, leaves, adapterCalls, costs, delivered, outcome,
                   passLog>>

\* resumes after `await checkRateLimit(name)`: rate limited -> next backend;
\* otherwise the capacity test, then `return provider`
ResumeRateLimit(r) ==
    /\ pc[r] = "rateCheck"
    /\ \E name \in {SortedProviders[idx[r]]} :
           IF ~rateOk[r] \/ AtCapacity(name)
           THEN /\ LoopAt(r, idx[r] + 1)
                /\ sel' = sel
           ELSE /\ pc' = [pc EXCEPT ![r] = "selected"]
                /\ sel' = [sel EXCEPT ![r] = name]
                /\ idx' = idx
    /\ UNCHANGED <<configVars, activeRequests, rateLimitTracker, now, kind, rateOk,
                   held, enters, leaves, adapterCalls, costs, delivered, outcome,
                   passLog>>

(***************************************************************************)
(* invoke, lines 369-394.                                                  *)
(***************************************************************************)

\* faulty variant: the adapter is called before the counter is incremented
Enter_Deferred(r, name) == UNCHANGED <<activeRequests, held, enters>>

\* enter: the request now holds a slot of backend name
Enter(r, name) ==
    /\ activeRequests' = incrementActiveRequests(activeRequests, name)
    /\ held' = [held EXCEPT ![r] = name]
    /\ enters' = [enters EXCEPT ![r] = Append(@, name)]

\* leave: the finally block
Leave(r, name) ==
    /\ activeRequests' = decrementActiveRequests(activeRequests, name)
    /\ held' = [held EXCEPT ![r] = NONE]
    /\ leaves' = [leaves EXCEPT ![r] = Append(@, name)]

\* resumes after `await selectProvider`: throws without a provider, else
\* increments the counter, calls provider.invoke and suspends on it
InvokeEnter(r) ==
    /\ pc[r] = "selected"
    /\ kind[r] = "invoke"
    /\ IF sel[r] = NONE
       THEN /\ pc' = [pc EXCEPT ![r] = "done"]
            /\ outcome' = [outcome EXCEPT ![r] = "noProvider"]
            /\ UNCHANGED <<activeRequests, held, enters, adapterCalls>>
       ELSE /\ Enter(r, sel[r])
            /\ adapterCalls' = [adapterCalls EXCEPT ![r] = Append(@, sel[r])]
            /\ pc' = [pc EXCEPT ![r] = "inflight"]
            /\ outcome' = outcome
    /\ UNCHANGED <<configVars, rateLimitTracker, now, kind, idx, rateOk, sel,
                   leaves, costs, delivered, passLog>>

\* faulty variant: the response is returned without a call of trackCost
InvokeSucceeds_NoCost(r) ==
    /\ pc[r] = "inflight"
    /\ pc' = [pc EXCEPT ![r] = "costing"]
    /\ UNCHANGED <<configVars, activeRequests, rateLimitTracker, now, kind, idx,
                   rateOk, sel, held, enters, leaves, adapterCalls, delivered,
                   outcome, passLog, costs>>

\* provider.invoke resolves: trackCost is called (it computes and logs the
\* cost before its promise settles, unless the providers Map lacks the name)
\* and invoke suspends on it
InvokeSucceeds(r) ==
    /\ pc[r] = "inflight"
    /\ pc' = [pc EXCEPT ![r] = "costing"]
    /\ costs' = [costs EXCEPT ![r] = IF sel[r] \in ProviderSet THEN @ + 1 ELSE @]
    /\ UNCHANGED <<configVars, activeRequests, rateLimitTracker, now, kind, idx,
                   rateOk, sel, held, enters, leaves, adapterCalls, delivered,
                   outcome, passLog>>

\* faulty variant: the counter is decremented after the await instead of in finally
InvokeFails_NoFinally(r) ==
    /\ pc[r] = "inflight"
    /\ pc' = [pc EXCEPT ![r] = "done"]
    /\ outcome' = [outcome EXCEPT ![r] = "adapterError"]
    /\ UNCHANGED <<configVars, activeRequests, rateLimitTracker, now, kind, idx,
                   rateOk, sel, held, enters, leaves, adapterCalls, costs,
                   delivered, passLog>>

\* faulty variant: after the finally block the request is routed again
InvokeFails_Restart(r) ==
    /\ pc[r] = "inflight"
    /\ Leave(r, sel[r])
    /\ LoopAt(r, 1)
    /\ UNCHANGED <<configVars, rateLimitTracker, now, kind, rateOk, sel,
                   enters, adapterCalls, costs, delivered, passLog, outcome>>

\* provider.invoke rejects: the finally block runs and the error propagates
InvokeFails(r) ==
    /\ pc[r] = "inflight"
    /\ Leave(r, sel[r])
    /\ pc' = [pc EXCEPT ![r] = "done"]
    /\ outcome' = [outcome EXCEPT ![r] = "adapterError"]
    /\ UNCHANGED <<configVars, rateLimitTracker, now, kind, idx, rateOk, sel,
                   enters, adapterCalls, costs, delivered, passLog>>

\* resumes after `await trackCost`: return response, then the finally block
InvokeReturns(r) ==
    /\ pc[r] = "costing"
    /\ Leave(r, sel[r])
    /\ pc' = [pc EXCEPT ![r] = "done"]
    /\ outcome' = [outcome EXCEPT ![r] = "ok"]
    /\ UNCHANGED <<configVars, rateLimitTracker, now, kind, idx, rateOk, sel,
                   enters, adapterCalls, costs, delivered, passLog>>

(***************************************************************************)
(* stream, lines 399-420.                                                  *)
(***************************************************************************)

\* resumes after `await selectProvider`: throws without a provider, else
\* increments the counter, creates the adapter's generator and pulls from it
StreamEnter(r) ==
    /\ pc[r] = "selected"
    /\ kind[r] = "stream"
    /\ IF sel[r] = NONE
       THEN /\ pc' = [pc EXCEPT ![r] = "done"]
            /\ outcome' = [outcome EXCEPT ![r] = "noProvider"]
            /\ UNCHANGED <<activeRequests, held, enters, adapterCalls>>
       ELSE /\ Enter(r, sel[r])
            /\ adapterCalls' = [adapterCalls EXCEPT ![r] = Append(@, sel[r])]
            /\ pc' = [pc EXCEPT ![r] = "streaming"]
            /\ outcome' = outcome
    /\ UNCHANGED <<configVars, rateLimitTracker, now, kind, idx, rateOk, sel,
                   leaves, costs, delivered, passLog>>

\* the adapter yields a chunk and the router yields it to the consumer (the
\* adapters catch their own failures and yield an error chunk, see below)
StreamYield(r) ==
    /\ pc[r] = "streaming"
    /\ delivered[r] < MaxChunks
    /\ pc' = [pc EXCEPT ![r] = "yielded"]
    /\ delivered' = [delivered EXCEPT ![r] = @ + 1]
    /\ UNCHANGED <<configVars, activeRequests, rateLimitTracker, now, kind, idx,
                   rateOk, sel, held, enters, leaves, adapterCalls, costs,
                   outcome, passLog>>

\* the adapter's generator finishes: the loop ends and the finally block runs
StreamEnd(r) ==
    /\ pc[r] = "streaming"
    /\ Leave(r, sel[r])
    /\ pc' = [pc EXCEPT ![r] = "done"]
    /\ outcome' = [outcome EXCEPT ![r] = "finished"]
    /\ UNCHANGED <<configVars, rateLimitTracker, now, kind, idx, rateOk, sel,
                   enters, adapterCalls, costs, delivered, passLog>>

\* the consumer pulls the next chunk: the loop pulls from the adapter
StreamPull(r) ==
    /\ pc[r] = "yielded"
    /\ pc' = [pc EXCEPT ![r] = "streaming"]
    /\ UNCHANGED <<configVars, activeRequests, rateLimitTracker, now, kind, idx,
                   rateOk, sel, held, enters, leaves, adapterCalls, costs,
                   delivered, outcome, passLog>>

\* faulty variant: the counter is also decremented when the cancellation arrives
StreamCancel_LeaveEarly(r) ==
    /\ pc[r] = "yielded"
    /\ Leave(r, sel[r])
    /\ pc' = [pc EXCEPT ![r] = "closing"]
    /\ UNCHANGED <<configVars, rateLimitTracker, now, kind, idx, rateOk, sel,
                   enters, adapterCalls, costs, delivered, outcome, passLog>>

\* the consumer calls return() at the yield: for-await closes the adapter's
\* generator (awaiting its return()) before the finally block runs
StreamCancel(r) ==
    /\ pc[r] = "yielded"
    /\ pc' = [pc EXCEPT ![r] = "closing"]
    /\ UNCHANGED <<configVars, activeRequests, rateLimitTracker, now, kind, idx,
                   rateOk, sel, held, enters, leaves, adapterCalls, costs,
                   delivered, outcome, passLog>>

\* faulty variant: the generator ends at the cancellation without its finally
StreamClosed_NoFinally(r) ==
    /\ pc[r] = "closing"
    /\ pc' = [pc EXCEPT ![r] = "done"]
    /\ outcome' = [outcome EXCEPT ![r] = "cancelled"]
    /\ UNCHANGED <<configVars, activeRequests, rateLimitTracker, now, kind, idx,
                   rateOk, sel, held, enters, leaves, adapterCalls, costs,
                   delivered, passLog>>

\* the adapter's generator has closed: the finally block runs
StreamClosed(r) ==
    /\ pc[r] = "closing"
    /\ Leave(r, sel[r])
    /\ pc' = [pc EXCEPT ![r] = "done"]
    /\ outcome' = [outcome EXCEPT ![r] = "cancelled"]
    /\ UNCHANGED <<configVars, rateLimitTracker, now, kind, idx, rateOk, sel,
                   enters, adapterCalls, costs, delivered, passLog>>

\* wall-clock time passes
Tick ==
    /\ now < horizon
    /\ now' = now + TickMs
    /\ UNCHANGED <<configVars, activeRequests, rateLimitTracker, pc, kind, idx,
                   rateOk, sel, held, enters, leaves, adapterCalls, costs,
                   delivered, outcome, passLog>>

Next ==
    \/ \E r \in slots : CallInvoke(r)
    \/ \E r \in slots : CallStream(r)
    \/ \E r \in slots : FirstPull(r)
    \/ \E r \in slots : DropStream(r)
    \/ \E r \in slots : ResumeAvailable(r)
    \/ \E r \in slots : ResumeRateLimit(r)
    \/ \E r \in slots : InvokeEnter(r)
    \/ \E r \in slots : InvokeSucceeds(r)
    \/ \E r \in slots : InvokeFails(r)
    \/ \E r \in slots : InvokeReturns(r)
    \/ \E r \in slots : StreamEnter(r)
    \/ \E r \in slots : StreamYield(r)
    \/ \E r \in slots : StreamEnd(r)
    \/ \E r \in slots : StreamPull(r)
    \/ \E r \in slots : StreamCancel(r)
    \/ \E r \in slots : StreamClosed(r)

Spec == Init /\ [][Next]_vars

\* the steps of request r that the event loop, the adapter or the consumer of
\* a started stream takes: resumptions after an await are run by the event
\* loop; an adapter call returns or fails; a stream's consumer pulls or cancels
Progress(r) ==
    \/ ResumeAvailable(r)
    \/ ResumeRateLimit(r)
    \/ InvokeEnter(r)
    \/ InvokeSucceeds(r)
    \/ InvokeFails(r)
    \/ InvokeReturns(r)
    \/ StreamEnter(r)
    \/ StreamYield(r)
    \/ StreamEnd(r)
    \/ StreamPull(r)
    \/ StreamCancel(r)
    \/ StreamClosed(r)

\* concurrent requests whose pending steps are eventually taken; whether and
\* when a caller starts a request or first pulls from a stream is left open
InitLive ==
    RouterInit(ThreeBackends, Requests, 1, 0) /\ NoAdapter /\ NoCost /\ NoReshape
        /\ NoPass
SpecLive == InitLive /\ [][Next]_vars /\ WF_vars(\E r \in slots : Progress(r))

\* one caller issuing requests one after the other while the clock runs past
\* the rate-limit window
InitRate ==
    RouterInit(RateConfigs, {1}, RateCalls, RateTicks) /\ NoAdapter /\ NoCost /\ NoReshape
        /\ NoPass
NextRate == Tick \/ Next
SpecRate == InitRate /\ [][NextRate]_vars

\* one caller issuing requests one after the other, the clock running, with
\* a backend whose limits are zero
InitZero ==
    RouterInit(ZeroConfigs, {1}, RateCalls, RateTicks) /\ NoAdapter /\ NoCost /\ NoReshape
        /\ NoPass
SpecZero == InitZero /\ [][NextRate]_vars

(***************************************************************************)
(* The adapters' stream() generators, src/unnamed/part_005: OpenAIProvider *)
(* lines 157-223, AnthropicProvider lines 299-367, GoogleGeminiProvider    *)
(* lines 442-506.                                                          *)
(*                                                                         *)
(* The bytes of a response are modelled in groups: "d1" "d2" are the two   *)
(* halves of the prefix `data: `, "c1" "c2" the two halves of a JSON       *)
(* payload carrying text, "s1" "s2" the two halves of the end-of-stream    *)
(* payload (`[DONE]`, or the message_stop event), "x" bytes that are not   *)
(* JSON, "nl" a line feed.  A read returns any non-empty run of groups.    *)
(***************************************************************************)
routerVars == <<providerConfigs, providers, activeRequests, rateLimitTracker, now,
                pc, kind, idx, rateOk, sel, held, enters, leaves, adapterCalls,
                costs, delivered, outcome, passLog, slots, callsLeft, horizon,
                supplied, status, passVars>>

ContentFrame(a) ==
    IF a = "google" THEN <<"c1", "c2", "nl">> ELSE <<"d1", "d2", "c1", "c2", "nl">>
StopFrame(a) ==
    IF a = "google" THEN <<"s1", "s2", "nl">> ELSE <<"d1", "d2", "s1", "s2", "nl">>
BadFrame(a) ==
    IF a = "google" THEN <<"x", "nl">> ELSE <<"d1", "d2", "x", "nl">>

Frames(a) == {ContentFrame(a), StopFrame(a), BadFrame(a)}

\* every response of at most n frames
RECURSIVE Wires(_, _)
Wires(a, n) ==
    IF n = 0 THEN {<<>>}
    ELSE Wires(a, n - 1) \cup {f \o w : f \in Frames(a), w \in Wires(a, n - 1)}

\* chunk.split("\n")
RECURSIVE SplitLines(_)
SplitLines(seg) ==
    IF \A i \in 1..Len(seg) : seg[i] # "nl" THEN <<seg>>
    ELSE LET i == CHOOSE j \in 1..Len(seg) :
                      seg[j] = "nl" /\ \A h \in 1..(j - 1) : seg[h] # "nl"
         IN  <<SubSeq(seg, 1, i - 1)>> \o SplitLines(SubSeq(seg, i + 1, Len(seg)))

\* line.startsWith("data: ") and line.slice(6)
StartsWithData(line) == Len(line) >= 2 /\ line[1] = "d1" /\ line[2] = "d2"
Slice6(line) == SubSeq(line, 3, Len(line))

\* what one line makes the adapter do: yield "content", yield "end", or nothing
Classify(a, line) ==
    IF a = "openai" THEN
        IF ~StartsWithData(line) THEN "skip"
        ELSE IF Slice6(line) = <<"s1", "s2">> THEN "end"
        ELSE IF Slice6(line) = <<"c1", "c2">> THEN "content"
        ELSE "skip"
    ELSE IF a = "anthropic" THEN
        IF ~StartsWithData(line) THEN "skip"
        ELSE IF Slice6(line) = <<"c1", "c2">> THEN "content"
        ELSE IF Slice6(line) = <<"s1", "s2">> THEN "end"
        ELSE "skip"
    ELSE
        IF line = <<"c1", "c2">> THEN "content" ELSE "skip"

\* faulty variant: a line that yields nothing ends the for loop
DropSkipped_Abort(a, ls) ==
    IF ls = <<>> THEN <<>>
    ELSE IF Classify(a, Head(ls)) = "skip" THEN <<>>
    ELSE ls

\* the for loop over lines, up to the first line that yields
RECURSIVE DropSkipped(_, _)
DropSkipped(a, ls) ==
    IF ls = <<>> THEN <<>>
    ELSE IF Classify(a, Head(ls)) = "skip" THEN DropSkipped(a, Tail(ls))
    ELSE ls

\* every chunk the for loop yields for the lines ls when the consumer keeps
\* pulling: OpenAI returns after its end chunk, the others go on
RECURSIVE ChunksOfLines(_, _)
ChunksOfLines(a, ls) ==
    IF ls = <<>> THEN <<>>
    ELSE IF Classify(a, Head(ls)) = "skip" THEN ChunksOfLines(a, Tail(ls))
    ELSE IF Classify(a, Head(ls)) = "end" /\ a = "openai" THEN <<"end">>
    ELSE <<Classify(a, Head(ls))>> \o ChunksOfLines(a, Tail(ls))

\* the chunks of a response that one reader.read() returns whole
OneRead(a, bytes) == <<"start">> \o ChunksOfLines(a, SplitLines(bytes))

\* the generator runs through the lines ls: it suspends at the first yield,
\* or at the next reader.read() when no line yields
Continue(ls) ==
    LET rest == DropSkipped(adapter, ls)
    IN  IF rest = <<>>
        THEN /\ apc' = "reading"
             /\ lines' = <<>>
             /\ emitted' = emitted
        ELSE /\ apc' = IF Classify(adapter, Head(rest)) = "end" THEN "yEnd" ELSE "yContent"
             /\ lines' = Tail(rest)
             /\ emitted' = Append(emitted, Classify(adapter, Head(rest)))

\* first pull: fetch succeeds with a body; the reader is locked, start is yielded
ConnectOk ==
    /\ apc = "init"
    /\ apc' = "yStart"
    /\ locked' = TRUE
    /\ transport' = "open"
    /\ emitted' = Append(emitted, "start")
    /\ UNCHANGED <<routerVars, costVars, reshapeVars, sent, aligned, adapter, wire, lines>>

\* first pull: fetch throws, or the status is not ok, or there is no body:
\* the outer catch yields an error chunk
ConnectFails ==
    /\ apc = "init"
    /\ apc' = "yError"
    /\ emitted' = Append(emitted, "error")
    /\ UNCHANGED <<routerVars, costVars, reshapeVars, transport, sent, aligned, adapter, wire, lines, locked>>

\* pull after start: the loop calls reader.read()
PullAfterStart ==
    /\ apc = "yStart"
    /\ apc' = "reading"
    /\ UNCHANGED <<routerVars, costVars, reshapeVars, transport, sent, aligned, adapter, wire, lines, emitted, locked>>

\* reader.read() returns the next n groups of the response
ReadData ==
    /\ apc = "reading"
    /\ \E n \in 1..Len(wire) :
          /\ wire' = SubSeq(wire, n + 1, Len(wire))
          /\ aligned' = (aligned /\ wire[n] = "nl")
          /\ Continue(SplitLines(SubSeq(wire, 1, n)))
    /\ UNCHANGED <<routerVars, costVars, reshapeVars, transport, sent, adapter, locked>>

\* reader.read() reports done (the backend closed the connection): break,
\* the finally block releases the lock, the generator returns
ReadDone ==
    /\ apc = "reading"
    /\ apc' = "finished"
    /\ wire' = <<>>
    /\ locked' = FALSE
    /\ transport' = "closed"
    /\ UNCHANGED <<routerVars, costVars, reshapeVars, sent, aligned, adapter, lines, emitted>>

\* faulty variant: the failure of reader.read() is rethrown to the consumer
ReadFails_Rethrown ==
    /\ apc = "reading"
    /\ apc' = "thrown"
    /\ wire' = <<>>
    /\ locked' = FALSE
    /\ transport' = "errored"
    /\ UNCHANGED <<routerVars, costVars, reshapeVars, sent, aligned, adapter, lines, emitted>>

\* reader.read() rejects: finally releases the lock, the outer catch yields
\* an error chunk
ReadFails ==
    /\ apc = "reading"
    /\ apc' = "yError"
    /\ wire' = <<>>
    /\ locked' = FALSE
    /\ transport' = "errored"
    /\ emitted' = Append(emitted, "error")
    /\ UNCHANGED <<routerVars, costVars, reshapeVars, sent, aligned, adapter, lines>>

\* pull after a content chunk: the for loop goes on
PullAfterContent ==
    /\ apc = "yContent"
    /\ Continue(lines)
    /\ UNCHANGED <<routerVars, costVars, reshapeVars, transport, sent, aligned, adapter, wire, locked>>

\* pull after an end chunk: OpenAI returns (through finally); Anthropic has
\* no return there and goes on with the for loop
PullAfterEnd ==
    /\ apc = "yEnd"
    /\ IF adapter = "openai"
       THEN /\ apc' = "finished"
            /\ locked' = FALSE
            /\ UNCHANGED <<lines, emitted>>
       ELSE /\ Continue(lines)
            /\ locked' = locked
    /\ UNCHANGED <<routerVars, costVars, reshapeVars, transport, sent, aligned, adapter, wire>>

\* pull after the error chunk: the generator returns
PullAfterError ==
    /\ apc = "yError"
    /\ apc' = "finished"
    /\ UNCHANGED <<routerVars, costVars, reshapeVars, transport, sent, aligned, adapter, wire, lines, emitted, locked>>

\* the consumer calls return() while the generator is suspended at a yield:
\* the finally block runs when the yield is inside the inner try
CancelAtYield ==
    /\ apc \in {"yStart", "yContent", "yEnd", "yError"}
    /\ apc' = "cancelled"
    /\ locked' = IF apc \in {"yContent", "yEnd"} THEN FALSE ELSE locked
    /\ UNCHANGED <<routerVars, costVars, reshapeVars, transport, sent, aligned, adapter, wire, lines, emitted>>

NextStream ==
    \/ ConnectOk
    \/ ConnectFails
    \/ PullAfterStart
    \/ ReadData
    \/ ReadDone
    \/ ReadFails
    \/ PullAfterContent
    \/ PullAfterEnd
    \/ PullAfterError
    \/ CancelAtYield

\* one adapter generator, every response of at most MaxFrames frames
InitStream ==
    /\ RouterInit({<<>>}, {}, 0, 0)
    /\ adapter \in ProviderNames
    /\ wire \in Wires(adapter, MaxFrames)
    /\ sent = wire
    /\ aligned = TRUE
    /\ transport = NONE
    /\ NoReshape
    /\ NoPass
    /\ apc = "init"
    /\ lines = <<>>
    /\ emitted = <<>>
    /\ locked = FALSE
    /\ NoCost

SpecStream == InitStream /\ [][NextStream]_vars

(***************************************************************************)
(* Router.stream around an adapter's generator, src/unnamed/part_004 lines *)
(* 413-419:                                                                *)
(*     for await (const chunk of provider.stream(request)) { yield chunk; }*)
(* The router stands at "pulling" while it awaits the adapter's next(), at *)
(* "yielded" while it is suspended at `yield chunk`, at "closing" while    *)
(* for-await awaits the adapter's return().  The adapter's generator runs  *)
(* only when the router pulls from it or closes it.                        *)
(***************************************************************************)

\* everything but the adapter's generator and the pass-through
passFrame == <<providerConfigs, providers, activeRequests, rateLimitTracker, now,
               pc, kind, idx, rateOk, sel, held, enters, leaves, adapterCalls,
               costs, delivered, outcome, passLog, slots, callsLeft, horizon,
               supplied, status, costVars, reshapeVars>>

\* the adapter is suspended at a yield
AtYield == apc \in {"yStart", "yContent", "yEnd", "yError"}

\* the router awaits the adapter and has passed on every chunk so far
Relayed == rpc = "pulling" /\ Len(received) = Len(emitted)

\* faulty variant: the router keeps the start chunk to itself
RouterYield_FiltersStart ==
    /\ rpc = "pulling"
    /\ AtYield
    /\ Len(received) < Len(emitted)
    /\ received' = IF emitted[Len(emitted)] = "start"
                   THEN received
                   ELSE Append(received, emitted[Len(emitted)])
    /\ rpc' = "yielded"
    /\ UNCHANGED <<passFrame, adapterVars>>

\* for-await receives the chunk the adapter yielded; `yield chunk`
RouterYield ==
    /\ rpc = "pulling"
    /\ AtYield
    /\ Len(received) < Len(emitted)
    /\ received' = Append(received, emitted[Len(emitted)])
    /\ rpc' = "yielded"
    /\ UNCHANGED <<passFrame, adapterVars>>

\* the consumer pulls: the loop goes round and pulls from the adapter
ConsumerPull ==
    /\ rpc = "yielded"
    /\ rpc' = "pulling"
    /\ UNCHANGED <<passFrame, adapterVars, received>>

\* the consumer calls return() at the yield: for-await closes the adapter
ConsumerCancel ==
    /\ rpc = "yielded"
    /\ rpc' = "closing"
    /\ UNCHANGED <<passFrame, adapterVars, received>>

\* the adapter's generator has closed: the finally block runs, the router's
\* generator completes
RouterClosed ==
    /\ rpc = "closing"
    /\ apc = "cancelled"
    /\ rpc' = "cancelled"
    /\ UNCHANGED <<passFrame, adapterVars, received>>

\* the adapter's generator has finished: the loop ends, the finally block
\* runs, the router's generator completes
RouterEnds ==
    /\ rpc = "pulling"
    /\ apc = "finished"
    /\ rpc' = "finished"
    /\ UNCHANGED <<passFrame, adapterVars, received>>

\* the adapter's steps, taken when the router pulls or closes
PassConnectOk == rpc = "pulling" /\ ConnectOk
PassConnectFails == rpc = "pulling" /\ ConnectFails
PassReadData == rpc = "pulling" /\ ReadData
PassReadDone == rpc = "pulling" /\ ReadDone
PassReadFails == rpc = "pulling" /\ ReadFails
PassPullAfterStart == Relayed /\ PullAfterStart
PassPullAfterContent == Relayed /\ PullAfterContent
PassPullAfterEnd == Relayed /\ PullAfterEnd
PassPullAfterError == Relayed /\ PullAfterError
PassCancelAtYield == rpc = "closing" /\ CancelAtYield

NextPass ==
    \/ RouterYield
    \/ ConsumerPull
    \/ ConsumerCancel
    \/ RouterClosed
    \/ RouterEnds
    \/ PassConnectOk
    \/ PassConnectFails
    \/ PassReadData
    \/ PassReadDone
    \/ PassReadFails
    \/ PassPullAfterStart
    \/ PassPullAfterContent
    \/ PassPullAfterEnd
    \/ PassPullAfterError
    \/ PassCancelAtYield

\* the router has entered its for-await over one adapter's generator, for
\* every response of at most MaxFrames frames
InitPass ==
    /\ RouterInit({<<>>}, {}, 0, 0)
    /\ adapter \in ProviderNames
    /\ wire \in Wires(adapter, MaxFrames)
    /\ sent = wire
    /\ aligned = TRUE
    /\ transport = NONE
    /\ NoReshape
    /\ apc = "init"
    /\ lines = <<>>
    /\ emitted = <<>>
    /\ locked = FALSE
    /\ NoCost
    /\ received = <<>>
    /\ rpc = "pulling"

SpecPass == InitPass /\ [][NextPass]_vars

(***************************************************************************)
(* getCost, src/unnamed/part_005 lines 85-90, with the rates each adapter  *)
(* passes to the base constructor.  Rates are in units of 0.0001 dollar    *)
(* per thousand tokens and a cost is in units of 0.0000001 dollar, so that *)
(* the quotient tokens / 1000 is exact: a count of t tokens is t           *)
(* thousandths of a thousand tokens.                                       *)
(***************************************************************************)
costPer1kTokens(a) ==
    IF a = "openai" THEN [input |-> 100, output |-> 300]
    ELSE IF a = "anthropic" THEN [input |-> 150, output |-> 750]
    ELSE [input |-> 5, output |-> 15]

\* faulty variant: the quotients are truncated to whole thousands
getCost_Truncated(a, inputTokens, outputTokens) ==
    ((inputTokens \div PerTokens) * PerTokens) * costPer1kTokens(a).input
        + ((outputTokens \div PerTokens) * PerTokens) * costPer1kTokens(a).output

\* (inputTokens / 1000) * input + (outputTokens / 1000) * output
getCost(a, inputTokens, outputTokens) ==
    inputTokens * costPer1kTokens(a).input + outputTokens * costPer1kTokens(a).output

\* token counts a response may report
TokenChoices == {0, 1, PerTokens - 1} \cup
                {i * (PerTokens \div 2) : i \in 1..MaxTokenHalves}

\* trackCost calls provider.getCost(usage.promptTokens, usage.completionTokens)
GetCost ==
    /\ cost = <<>>
    /\ cost' = <<getCost(adapter, usage.promptTokens, usage.completionTokens)>>
    /\ UNCHANGED <<routerVars, adapterVars, reshapeVars, usage>>

\* one adapter and one usage record
InitCost ==
    /\ RouterInit({<<>>}, {}, 0, 0)
    /\ adapter \in ProviderNames
    /\ apc = "off"
    /\ wire = <<>>
    /\ lines = <<>>
    /\ emitted = <<>>
    /\ locked = FALSE
    /\ sent = <<>>
    /\ aligned = TRUE
    /\ transport = NONE
    /\ NoReshape
    /\ NoPass
    /\ usage \in [promptTokens : TokenChoices, completionTokens : TokenChoices]
    /\ cost = <<>>

NextCost == GetCost
SpecCost == InitCost /\ [][NextCost]_vars

(***************************************************************************)
(* The request body AnthropicProvider builds, src/unnamed/part_005 lines   *)
(* 246-265 (invoke) and 301-317 (stream).  A message is [role, content];   *)
(* the content of the message at place i of a request is i.                *)
(***************************************************************************)
Roles == {"system", "user", "assistant", "tool"}

\* every request of exactly n messages
RequestsOfLen(n) ==
    { [i \in 1..n |-> [role |-> f[i], content |-> i]] : f \in [1..n -> Roles] }

\* request.messages.find((m) => m.role === "system")?.content: the content of
\* the first system message, or nothing
SystemContent(msgs) ==
    LET sys == SelectSeq(msgs, LAMBDA m : m.role = "system")
    IN  IF sys = <<>> THEN <<>> ELSE <<sys[1].content>>

\* request.messages.filter((m) => m.role !== "system")
OtherMessages(msgs) == SelectSeq(msgs, LAMBDA m : m.role # "system")

\* invoke: every other message with its role mapped to assistant or user
InvokeBody(msgs) ==
    [system |-> SystemContent(msgs),
     messages |-> [i \in 1..Len(OtherMessages(msgs)) |->
                     [role |-> IF OtherMessages(msgs)[i].role = "assistant"
                               THEN "assistant" ELSE "user",
                      content |-> OtherMessages(msgs)[i].content]]]

\* stream: the other messages as they are
StreamBody(msgs) ==
    [system |-> SystemContent(msgs), messages |-> OtherMessages(msgs)]

\* AnthropicProvider.invoke(request) builds and posts its body
SubmitInvoke ==
    /\ body.invoke = <<>>
    /\ body' = [body EXCEPT !.invoke = <<InvokeBody(messages)>>]
    /\ UNCHANGED <<routerVars, adapterVars, costVars, messages>>

\* AnthropicProvider.stream(request) builds and posts its body
SubmitStream ==
    /\ body.stream = <<>>
    /\ body' = [body EXCEPT !.stream = <<StreamBody(messages)>>]
    /\ UNCHANGED <<routerVars, adapterVars, costVars, messages>>

\* the Anthropic adapter and one request of at most MaxMessages messages
InitReshape ==
    /\ RouterInit({<<>>}, {}, 0, 0)
    /\ NoCost
    /\ NoPass
    /\ adapter = "anthropic"
    /\ apc = "off"
    /\ wire = <<>>
    /\ lines = <<>>
    /\ emitted = <<>>
    /\ locked = FALSE
    /\ sent = <<>>
    /\ aligned = TRUE
    /\ transport = NONE
    /\ \E n \in 0..MaxMessages : messages \in RequestsOfLen(n)
    /\ body = [invoke |-> <<>>, stream |-> <<>>]

NextReshape == SubmitInvoke \/ SubmitStream
SpecReshape == InitReshape /\ [][NextReshape]_vars

\* getStatus: one entry per key of the providers Map
getStatus ==
    [i \in 1..Len(providers) |->
        [name |-> providers[i],
         active |-> IF providers[i] \in DOMAIN activeRequests
                    THEN activeRequests[providers[i]] ELSE 0,
         available |-> TRUE]]

\* faulty variant: taking the snapshot clears the counters it has read
GetStatus_Clearing ==
    /\ status' = getStatus
    /\ activeRequests' = [b \in DOMAIN activeRequests |-> 0]
    /\ UNCHANGED <<providerConfigs, providers, rateLimitTracker, now, pc, kind,
                   idx, rateOk, sel, held, enters, leaves, adapterCalls, costs,
                   delivered, outcome, passLog, slots, callsLeft, horizon,
                   supplied, adapterVars, costVars, reshapeVars, passVars>>

\* a caller takes a snapshot with getStatus()
GetStatus ==
    /\ status' = getStatus
    /\ UNCHANGED <<providerConfigs, providers, activeRequests, rateLimitTracker,
                   now, pc, kind, idx, rateOk, sel, held, enters, leaves,
                   adapterCalls, costs, delivered, outcome, passLog, slots,
                   callsLeft, horizon, supplied, adapterVars, costVars,
                   reshapeVars, passVars>>

\* concurrent requests with snapshots taken at any moment between their steps
NextStatus == GetStatus \/ Next
InitStatus ==
    RouterInit(ThreeBackends, Requests, 1, 0) /\ NoAdapter /\ NoCost /\ NoReshape
        /\ NoPass
SpecStatus == InitStatus /\ [][NextStatus]_vars

(***************************************************************************)
(* Properties.                                                             *)
(***************************************************************************)

\* requests that have entered backend b and not yet left it
Outstanding(b) == Cardinality({r \in Requests : held[r] = b})

\* backends the selection pass of request r has skipped so far
Rejected(r) == {SortedProviders[i] : i \in 1..(idx[r] - 1)}

\* position of a backend in the order selection tries them
Position(name) == CHOOSE i \in 1..Len(SortedProviders) : SortedProviders[i] = name

\* C1: concurrency ceiling.  For every backend b the number of requests that
\* have entered b and not yet left it never exceeds b's maxConcurrent, in
\* every interleaving of invoke() and stream() calls.
C1_ConcurrencyCeiling ==
    \A b \in ProviderSet : Outstanding(b) <= ConfigOf(b).maxConcurrent

\* C2: enter/leave pairing for completed calls.  When an invoke() that
\* selected backend b returns or fails, or a stream() that selected b is
\* consumed to its end, the call has entered b exactly once and leaves b
\* exactly once, and the leave takes activeCount[b] down by exactly the one
\* the enter added.
C2_EnterLeavePaired ==
    [][\A r \in Requests :
          /\ (pc[r] = "selected" /\ pc'[r] \in {"inflight", "streaming"})
                => /\ enters'[r] = <<sel[r]>>
                   /\ leaves'[r] = <<>>
                   /\ activeRequests' = [activeRequests EXCEPT ![sel[r]] = @ + 1]
          /\ (pc[r] \in {"inflight", "costing", "streaming"} /\ pc'[r] = "done")
                => /\ outcome'[r] \in {"ok", "adapterError", "finished"}
                   /\ enters'[r] = <<sel[r]>>
                   /\ leaves'[r] = <<sel[r]>>
                   /\ held'[r] = NONE
                   /\ activeRequests' = [activeRequests EXCEPT ![sel[r]] = @ - 1]
      ]_vars

\* C2 witness: a failed invoke and a fully consumed stream have both ended
\* with their one leave done
C2_Witness ==
    \E r, q \in Requests :
        /\ pc[r] = "done" /\ outcome[r] = "adapterError" /\ leaves[r] = <<sel[r]>>
        /\ pc[q] = "done" /\ outcome[q] = "finished" /\ leaves[q] = <<sel[q]>>
        /\ delivered[q] > 0

\* C3: stream cancellation releases admission.  When the consumer cancels a
\* stream after at least one chunk, the selected backend is left exactly once:
\* activeCount stays incremented until the adapter's generator has closed and
\* then goes down by exactly one.
C3_CancelReleases ==
    [][\A r \in Requests :
          /\ (pc[r] = "yielded" /\ pc'[r] = "closing")
                => /\ held'[r] = sel[r]
                   /\ leaves'[r] = <<>>
                   /\ activeRequests' = activeRequests
          /\ (pc[r] = "closing" /\ pc'[r] # "closing")
                => /\ pc'[r] = "done"
                   /\ outcome'[r] = "cancelled"
                   /\ enters'[r] = <<sel[r]>>
                   /\ leaves'[r] = <<sel[r]>>
                   /\ held'[r] = NONE
                   /\ activeRequests' = [activeRequests EXCEPT ![sel[r]] = @ - 1]
      ]_vars

\* C3 witness: a stream cancelled after a chunk, its backend counter back at
\* the number of other requests still holding that backend
C3_Witness ==
    \E r \in Requests :
        /\ pc[r] = "done" /\ outcome[r] = "cancelled"
        /\ delivered[r] >= 1
        /\ leaves[r] = <<sel[r]>>
        /\ activeRequests[sel[r]] = Outstanding(sel[r])

\* C4: priority selection.  The backend selectProvider returns is the one
\* with the lowest priority number among the enabled backends that passed the
\* rate-limit and capacity checks: every enabled backend with a lower priority
\* number was tried and skipped first.
C4_LowestPrioritySelected ==
    \A r \in Requests :
        (pc[r] = "selected" /\ sel[r] # NONE)
            => \A c \in ProviderSet :
                  ConfigOf(c).priority < ConfigOf(sel[r]).priority
                      => c \in Rejected(r)

\* C5: no available backend.  selectProvider returns null only after every
\* enabled backend was skipped; invoke() and stream() then fail with the
\* no-provider error, call no adapter and leave every activeCount unchanged.
C5_NoProviderFails ==
    [][\A r \in Requests :
          (pc[r] = "selected" /\ sel[r] = NONE)
              => /\ Rejected(r) = ProviderSet
                 /\ pc'[r] # pc[r]
                       => /\ pc'[r] = "done"
                          /\ outcome'[r] = "noProvider"
                          /\ adapterCalls'[r] = <<>>
                          /\ enters'[r] = <<>>
                          /\ activeRequests' = activeRequests
      ]_vars

\* C5 witness: a stream failed with the no-provider error although backends
\* are configured and enabled, while another request holds a backend
C5_Witness ==
    \E r, q \in Requests :
        /\ pc[r] = "done" /\ outcome[r] = "noProvider" /\ kind[r] = "stream"
        /\ ProviderSet # {}
        /\ adapterCalls[r] = <<>>
        /\ held[q] # NONE

\* C6: rolling-window rate limit.  For a backend with rateLimitPerMinute = N
\* at most N checks pass within any 60 seconds, whatever the times of the
\* requests; a request whose check is rejected moves on past that backend
\* without calling its adapter.
C6_RollingWindowLimit ==
    [][/\ \A b \in ProviderSet :
             Len(passLog'[b]) <= ConfigOf(b).rateLimitPerMinute
       /\ \A r \in Requests :
             (pc[r] = "rateCheck" /\ ~rateOk[r] /\ pc'[r] # pc[r])
                 => /\ sel'[r] = NONE
                    /\ adapterCalls'[r] = <<>>
                    /\ idx'[r] = idx[r] + 1
                    /\ activeRequests' = activeRequests
      ]_vars

\* C6 witness: a backend with N >= 1 has N passed checks in the current
\* window and a further request has just been rejected by its check
C6_Witness ==
    \E r \in Requests :
        /\ pc[r] = "rateCheck" /\ ~rateOk[r]
        /\ LET b == SortedProviders[idx[r]]
           IN  /\ ConfigOf(b).rateLimitPerMinute >= 1
               /\ Len(passLog[b]) = ConfigOf(b).rateLimitPerMinute
               /\ now > 0

\* C7: rate-limit recovery.  A backend whose stored window holds N timestamps
\* passes the check again once the oldest of them is more than 60 seconds old,
\* however many checks were rejected in the meantime.
C7_RateLimitRecovery ==
    \A b \in ProviderSet :
        ( /\ ConfigOf(b).rateLimitPerMinute >= 1
          /\ Len(rateLimitTracker[b]) >= ConfigOf(b).rateLimitPerMinute
          /\ now - rateLimitTracker[b][1] > WindowMs )
            => RateLimitPasses(b, now)

\* C7 witness: the last request was rejected by every backend, the window of
\* one of them is full, and its oldest timestamp is now more than 60 s old
C7_Witness ==
    \E b \in ProviderSet :
        /\ pc[1] = "done" /\ outcome[1] = "noProvider"
        /\ ConfigOf(b).rateLimitPerMinute >= 1
        /\ Len(rateLimitTracker[b]) = ConfigOf(b).rateLimitPerMinute
        /\ now - rateLimitTracker[b][1] > WindowMs
        /\ RateLimitPasses(b, now)

\* C8: atomic check-and-record.  Under every interleaving of concurrent
\* requests the stored window of a backend is exactly the checks that passed:
\* a passing check adds one timestamp, a rejected check adds none, and no more
\* than rateLimitPerMinute checks pass, so two requests never pass on the same
\* free slot.
C8_AtomicCheckAndRecord ==
    \A b \in ProviderSet :
        /\ rateLimitTracker[b] = passLog[b]
        /\ Len(passLog[b]) <= ConfigOf(b).rateLimitPerMinute
        /\ Cardinality({r \in Requests :
                           /\ pc[r] = "rateCheck" /\ rateOk[r]
                           /\ SortedProviders[idx[r]] = b})
              <= Len(rateLimitTracker[b])

\* C8 witness: two requests are suspended on the rate-limit check of the same
\* backend, which had one free slot: one passed and the other was rejected
C8_Witness ==
    \E r, q \in Requests :
        /\ pc[r] = "rateCheck" /\ pc[q] = "rateCheck"
        /\ idx[r] = idx[q]
        /\ rateOk[r] /\ ~rateOk[q]
        /\ LET b == SortedProviders[idx[r]]
           IN  Len(rateLimitTracker[b]) = ConfigOf(b).rateLimitPerMinute

\* C9: failover on adapter failure.  When the selected backend's adapter
\* fails an invoke and a backend later in priority order is enabled, not rate
\* limited and not at capacity, the request does not fail: the router tries
\* that backend.
C9_FailoverOnAdapterFailure ==
    [][\A r \in Requests :
          (pc[r] = "inflight" /\ pc'[r] = "done" /\ outcome'[r] = "adapterError")
              => ~\E c \in ProviderSet :
                     /\ Position(c) > Position(sel[r])
                     /\ RateLimitPasses(c, now)
                     /\ ~AtCapacity(c)
      ]_vars

\* terminal chunks among the chunks yielded so far
TerminalAt == {i \in 1..Len(emitted) : emitted[i] \in {"end", "error"}}

\* C10: single terminal chunk.  For every adapter and every behaviour of the
\* transport a stream holds at most one terminal chunk (end or error) and no
\* chunk follows it.
C10_SingleTerminalChunk ==
    /\ Cardinality(TerminalAt) <= 1
    /\ \A i \in TerminalAt : i = Len(emitted)

\* the last chunk yielded so far
LastChunk == emitted[Len(emitted)]

\* the generator finishes after reading the whole response: read() reports
\* done with nothing left unread, or OpenAI returns after its end chunk
CleanFinish ==
    \/ apc = "reading" /\ apc' = "finished" /\ wire = <<>>
    \/ apc = "yEnd" /\ apc' = "finished"

\* C11: terminal chunk always present.  For every adapter, a stream that has
\* finished has yielded at least one chunk and its last chunk is end or error.
C11_TerminalChunkPresent ==
    apc = "finished" => (emitted # <<>> /\ LastChunk \in {"end", "error"})

\* C12: stream start.  Every chunk sequence an adapter's stream() yields
\* begins with a start chunk, also when the connection fails before any data,
\* and start appears exactly once.
C12_StartsWithStart ==
    emitted # <<>> =>
        /\ emitted[1] = "start"
        /\ Cardinality({i \in 1..Len(emitted) : emitted[i] = "start"}) = 1

\* C13: mid-stream failure surfaces as a chunk.  When reader.read() fails
\* after start was yielded, the generator yields an error chunk as its next
\* and last chunk with the reader's lock released, and on the next pull it
\* finishes normally; no exception reaches the consumer.
C13_MidStreamFailureIsChunk ==
    [][/\ apc' # "thrown"
       /\ (apc = "reading" /\ apc' = "yError")
             => /\ emitted[1] = "start"
                /\ emitted' = Append(emitted, "error")
                /\ ~locked'
       /\ (apc = "yError" /\ apc' # "yError")
             => /\ apc' \in {"finished", "cancelled"}
                /\ emitted' = emitted
      ]_vars

\* C13 witness: a stream that yielded start and content, then lost its
\* transport, has finished with the error chunk last and the lock released
C13_Witness ==
    /\ apc = "finished"
    /\ Len(emitted) = 3
    /\ emitted = <<"start", "content", "error">>
    /\ ~locked

\* C14: segmentation independence.  For the same bytes of a response, the
\* chunks an adapter has yielded when it finishes after reading them all are
\* the chunks it yields when one read returns all the bytes, however the
\* transport split them into reads.
C14_SegmentationIndependent ==
    [][CleanFinish => emitted = OneRead(adapter, sent)]_vars

\* whether the bytes begin with the frame f
StartsWithFrame(f, bytes) == Len(bytes) >= Len(f) /\ SubSeq(bytes, 1, Len(f)) = f
AfterFrame(f, bytes) == SubSeq(bytes, Len(f) + 1, Len(bytes))

\* the chunks of the well-formed frames of a response, in order: text for a
\* content frame, end for the end-of-stream frame of OpenAI (which closes the
\* sequence) and Anthropic, nothing for a malformed frame
RECURSIVE WellFormedChunks(_, _)
WellFormedChunks(a, bytes) ==
    IF bytes = <<>> THEN <<>>
    ELSE IF StartsWithFrame(ContentFrame(a), bytes)
         THEN <<"content">> \o WellFormedChunks(a, AfterFrame(ContentFrame(a), bytes))
    ELSE IF StartsWithFrame(StopFrame(a), bytes)
         THEN IF a = "openai" THEN <<"end">>
              ELSE IF a = "anthropic"
                   THEN <<"end">> \o WellFormedChunks(a, AfterFrame(StopFrame(a), bytes))
              ELSE WellFormedChunks(a, AfterFrame(StopFrame(a), bytes))
    ELSE WellFormedChunks(a, AfterFrame(BadFrame(a), bytes))

\* C15: malformed frames are skipped.  When every read returns whole lines, a
\* frame that cannot be parsed yields no chunk and does not end the stream:
\* the chunks yielded are start followed by the chunks of the well-formed
\* frames before and after it, in order.
C15_MalformedFramesSkipped ==
    [][(CleanFinish /\ aligned)
          => emitted = <<"start">> \o WellFormedChunks(adapter, sent)]_vars

\* C15 witness: a response of a content frame, a malformed frame and a content
\* frame has been read to its end and has yielded both content chunks
C15_Witness ==
    /\ apc = "finished"
    /\ aligned
    /\ sent = ContentFrame(adapter) \o BadFrame(adapter) \o ContentFrame(adapter)
    /\ emitted = <<"start", "content", "content">>

\* C16: cost recording.  trackCost runs exactly once for an invoke whose
\* adapter call succeeded and never for an invoke whose adapter call failed,
\* for a request that found no backend, or for a streamed request.
C16_CostRecordedOnSuccess ==
    \A r \in Requests :
        /\ costs[r] \in {0, 1}
        /\ costs[r] = 1 <=> (kind[r] = "invoke" /\ (pc[r] = "costing" \/ outcome[r] = "ok"))
        /\ (pc[r] = "done" /\ outcome[r] = "ok") => adapterCalls[r] = <<sel[r]>>

\* C16 witness: one invoke has returned its response with its cost recorded
\* once and another has failed in its adapter with no cost recorded
C16_Witness ==
    \E r, q \in Requests :
        /\ pc[r] = "done" /\ outcome[r] = "ok" /\ costs[r] = 1
        /\ pc[q] = "done" /\ outcome[q] = "adapterError" /\ costs[q] = 0

\* C17: cost formula.  getCost(promptTokens, completionTokens) is
\* (promptTokens / 1000) * inputRate + (completionTokens / 1000) * outputRate
\* with the adapter's fixed rates; for 1000 and 1000 tokens at the rates 0.01
\* and 0.03 it is 0.04 (400000 units of 0.0000001).
C17_CostFormula ==
    cost # <<>> =>
        /\ cost = <<usage.promptTokens * costPer1kTokens(adapter).input
                      + usage.completionTokens * costPer1kTokens(adapter).output>>
        /\ ( /\ costPer1kTokens(adapter) = [input |-> 100, output |-> 300]
             /\ usage = [promptTokens |-> 1000, completionTokens |-> 1000] )
               => cost = <<400000>>

\* C17 witness: the cost of 1000 and 1000 tokens at the rates 0.01 and 0.03
\* has been computed
C17_Witness ==
    /\ adapter = "openai"
    /\ usage = [promptTokens |-> 1000, completionTokens |-> 1000]
    /\ cost = <<400000>>

\* C18: status snapshot coverage.  getStatus() has exactly one entry for
\* every configured backend, the disabled ones included, with the backend's
\* activeCount, and available is true exactly for the backends that have an
\* adapter.
C18_StatusCoversConfigs ==
    /\ Len(getStatus) = Len(providerConfigs)
    /\ {getStatus[i].name : i \in 1..Len(getStatus)}
          = {providerConfigs[j].name : j \in 1..Len(providerConfigs)}
    /\ \A i \in 1..Len(getStatus) :
          getStatus[i].available <=> getStatus[i].name \in ProviderSet

\* C19: activeCount is never negative, in every interleaving of invoke,
\* stream, cancellation and failure.
C19_ActiveCountNonNegative ==
    \A b \in DOMAIN activeRequests : activeRequests[b] \in Nat

\* C19 witness: a failed invoke and a cancelled stream have both left their
\* backend and every counter is back at zero
C19_Witness ==
    /\ \E r, q \in Requests :
          /\ pc[r] = "done" /\ outcome[r] = "adapterError"
          /\ pc[q] = "done" /\ outcome[q] = "cancelled"
    /\ \A b \in DOMAIN activeRequests : activeRequests[b] = 0

\* C20: window pruned on each check.  After every rate-limit check of a
\* backend, passed or rejected, every timestamp stored for that backend is
\* less than 60 seconds old.
C20_WindowPrunedOnCheck ==
    [][\A r \in Requests :
          (pc[r] = "availCheck" /\ pc'[r] = "rateCheck")
              => LET stored == rateLimitTracker'[SortedProviders[idx[r]]]
                 IN  \A i \in 1..Len(stored) :
                        stored[i] > now - WindowMs /\ stored[i] <= now
      ]_vars

\* C20 witness: more than a minute after the first request, a check has just
\* been rejected by a full window whose timestamps are all of the last minute
C20_Witness ==
    /\ pc[1] = "rateCheck" /\ ~rateOk[1]
    /\ now > WindowMs
    /\ callsLeft[1] <= RateCalls - 3
    /\ LET stored == rateLimitTracker[SortedProviders[idx[1]]]
       IN  /\ Len(stored) = ConfigOf(SortedProviders[idx[1]]).rateLimitPerMinute
           /\ Len(stored) >= 1
           /\ \A i \in 1..Len(stored) : stored[i] > now - WindowMs

\* place of a backend in the configuration as supplied to the constructor
SuppliedIndex(name) == CHOOSE i \in 1..Len(supplied) : supplied[i].name = name

\* C21: stable order.  In every state providerConfigs is sorted by ascending
\* priority with equal priorities in the order supplied, and of two enabled
\* backends of equal priority selection tries the one supplied first before
\* the other.
C21_StableOrder ==
    /\ \A i, j \in 1..Len(providerConfigs) :
          i < j => /\ providerConfigs[i].priority <= providerConfigs[j].priority
                   /\ providerConfigs[i].priority = providerConfigs[j].priority
                         => SuppliedIndex(providerConfigs[i].name)
                              < SuppliedIndex(providerConfigs[j].name)
    /\ \A a, b \in ProviderSet :
          ( /\ ConfigOf(a).priority = ConfigOf(b).priority
            /\ SuppliedIndex(a) < SuppliedIndex(b) )
              => Position(a) < Position(b)

\* C21 witness: of two enabled backends of equal priority, a request has been
\* given the one supplied first, which is not the first in alphabetical order
\* of the two orders supplied
C21_Witness ==
    \E r \in Requests :
        /\ pc[r] = "selected" /\ sel[r] # NONE
        /\ \E b \in ProviderSet \ {sel[r]} :
              /\ ConfigOf(b).priority = ConfigOf(sel[r]).priority
              /\ SuppliedIndex(sel[r]) < SuppliedIndex(b)
        /\ supplied[1].name = "anthropic"

\* C22: disabled backends are never used.  A backend configured with
\* enabled = false has no adapter, is never selected, entered or called by
\* any request, and has no counter and no rate window that could change.
C22_DisabledNeverUsed ==
    \A i \in 1..Len(providerConfigs) :
        ~providerConfigs[i].enabled =>
            LET b == providerConfigs[i].name
            IN  /\ b \notin ProviderSet
                /\ b \notin DOMAIN activeRequests
                /\ b \notin DOMAIN rateLimitTracker
                /\ \A r \in Requests :
                      /\ sel[r] # b
                      /\ held[r] # b
                      /\ \A k \in 1..Len(adapterCalls[r]) : adapterCalls[r][k] # b
                      /\ \A k \in 1..Len(enters[r]) : enters[r][k] # b

\* C22 witness: an invoke has returned a response from a backend although a
\* disabled backend has a lower priority number
C22_Witness ==
    \E r \in Requests :
        /\ pc[r] = "done" /\ outcome[r] = "ok"
        /\ \E i \in 1..Len(providerConfigs) :
              /\ ~providerConfigs[i].enabled
              /\ providerConfigs[i].priority < ConfigOf(sel[r]).priority

\* C23: fail fast, no queueing.  Within one call the selection loop only
\* moves forward: a backend that rejects is passed at the next step and never
\* looked at again; when the list is exhausted the call fails in its next
\* step, and a failed call is never admitted later, whatever slots free up,
\* unless the caller issues a new request.
C23_FailFast ==
    [][\A r \in Requests :
          callsLeft'[r] = callsLeft[r] =>
              /\ idx'[r] >= idx[r]
              /\ ( /\ pc[r] = "rateCheck"
                   /\ ~rateOk[r] \/ AtCapacity(SortedProviders[idx[r]])
                   /\ pc'[r] # pc[r] \/ idx'[r] # idx[r] )
                    => /\ idx'[r] = idx[r] + 1
                       /\ pc'[r] \in {"availCheck", "selected"}
                       /\ held'[r] = NONE
              /\ (pc[r] = "selected" /\ sel[r] = NONE /\ pc'[r] # pc[r])
                    => pc'[r] = "done" /\ outcome'[r] = "noProvider"
              /\ (pc[r] = "done" /\ outcome[r] = "noProvider")
                    => /\ pc'[r] = "done"
                       /\ held'[r] = NONE
                       /\ enters'[r] = <<>>
                       /\ adapterCalls'[r] = <<>>
      ]_vars

\* C23 witness: a request failed for want of a backend, the request that held
\* the slot has since returned, the slot is free, and the failed request has
\* stayed failed
C23_Witness ==
    \E r, q \in Requests :
        /\ pc[r] = "done" /\ outcome[r] = "noProvider"
        /\ pc[q] = "done" /\ outcome[q] = "ok"
        /\ activeRequests[sel[q]] = 0
        /\ ~AtCapacity(sel[q])
        /\ enters[r] = <<>>

\* C24: no re-entry.  One request calls at most one adapter, at most once,
\* and runs selection once: after selectProvider has returned the request
\* never goes back into the selection loop, and after its adapter has failed
\* it ends without any further adapter call.
C24_NoReentry ==
    [][\A r \in Requests :
          callsLeft'[r] = callsLeft[r] =>
              /\ Len(adapterCalls'[r]) <= 1
              /\ Len(enters'[r]) <= 1
              /\ pc[r] \in {"selected", "inflight", "costing", "streaming",
                             "yielded", "closing", "done"}
                    => pc'[r] \notin {"created", "availCheck", "rateCheck"}
              /\ (pc[r] = "inflight" /\ pc'[r] \notin {"inflight", "costing"})
                    => /\ pc'[r] = "done"
                       /\ outcome'[r] = "adapterError"
                       /\ adapterCalls'[r] = <<sel[r]>>
              /\ pc[r] = "done"
                    => pc'[r] = "done" /\ adapterCalls'[r] = adapterCalls[r]
      ]_vars

\* C24 witness: an invoke whose adapter failed has ended with that one
\* adapter call although its backend is free again and a second backend is
\* enabled
C24_Witness ==
    \E r \in Requests :
        /\ pc[r] = "done" /\ outcome[r] = "adapterError"
        /\ adapterCalls[r] = <<sel[r]>>
        /\ activeRequests[sel[r]] = 0
        /\ Len(providers) >= 2
        /\ idx[r] = 1

\* C25: cancellation closes the transport.  When the consumer cancels an
\* adapter's stream before a terminal chunk was yielded, the connection
\* behind the reader is closed, not only unlocked.
C25_CancelClosesTransport ==
    (apc = "cancelled" /\ LastChunk \notin {"end", "error"})
        => transport = "closed"

\* contents of the messages of a sequence, in order
Contents(msgs) == [i \in 1..Len(msgs) |-> msgs[i].content]

\* C26: system-message extraction.  The body the Anthropic adapter submits
\* carries the content of every system message in the system field and every
\* other message, in the original order, in messages, so that no message of
\* the request is missing; invoke and stream submit the same body.
C26_SystemExtraction ==
    /\ \A b \in {body.invoke, body.stream} :
          b # <<>> =>
              /\ b[1].system
                    = Contents(SelectSeq(messages, LAMBDA m : m.role = "system"))
              /\ Contents(b[1].messages)
                    = Contents(SelectSeq(messages, LAMBDA m : m.role # "system"))
    /\ (body.invoke # <<>> /\ body.stream # <<>>) => body.invoke = body.stream

\* C27: admission ordering.  A request has entered no backend and called no
\* adapter while it is still in selection; while its adapter call is in flight
\* (invoke pending, cost being tracked, stream open or closing) it has entered
\* the selected backend, has not left it, and that backend's activeCount is
\* incremented; it has left only once the call is over.
C27_AdmissionOrdering ==
    \A r \in Requests :
        /\ pc[r] \in {"idle", "created", "availCheck", "rateCheck", "selected"}
              => /\ held[r] = NONE
                 /\ enters[r] = <<>>
                 /\ adapterCalls[r] = <<>>
                 /\ leaves[r] = <<>>
        /\ pc[r] \in {"inflight", "costing", "streaming", "yielded", "closing"}
              => /\ sel[r] # NONE
                 /\ held[r] = sel[r]
                 /\ enters[r] = <<sel[r]>>
                 /\ adapterCalls[r] = <<sel[r]>>
                 /\ leaves[r] = <<>>
                 /\ activeRequests[sel[r]] >= 1
        /\ leaves[r] # <<>> => (pc[r] = "done" /\ leaves[r] = enters[r])

\* C27 witness: a stream suspended after a chunk and an invoke whose cost is
\* being tracked each hold their own backend
C27_Witness ==
    \E r, q \in Requests :
        /\ pc[r] = "yielded" /\ delivered[r] >= 1 /\ held[r] = sel[r]
        /\ pc[q] = "costing" /\ held[q] = sel[q]
        /\ sel[q] # sel[r]

\* C28: the status snapshot is read-only.  A step that changes the last
\* snapshot taken changes nothing else: no counter, no rate window, and no
\* request's position, selection or outcome.
C28_StatusReadOnly ==
    [][status' # status
          => UNCHANGED <<providerConfigs, providers, activeRequests,
                         rateLimitTracker, now, pc, kind, idx, rateOk, sel, held,
                         enters, leaves, adapterCalls, outcome>>
      ]_vars

\* C28 witness: a snapshot taken while a request held a backend shows a count
\* of one; the request has since returned and the counter is back at zero
C28_Witness ==
    \E i \in 1..Len(status) :
        /\ status[i].active = 1
        /\ activeRequests[status[i].name] = 0
        /\ \E r \in Requests :
              pc[r] = "done" /\ outcome[r] = "ok" /\ sel[r] = status[i].name

\* C29: counter equals in-flight requests.  For every enabled backend,
\* activeCount, which getStatus reports as active, is the number of requests
\* that have entered the backend and not left it; a request that holds a
\* backend finds its count at one or more, so the clamp never absorbs a leave.
C29_CounterEqualsInFlight ==
    /\ \A b \in ProviderSet : activeRequests[b] = Outstanding(b)
    /\ \A i \in 1..Len(getStatus) :
          getStatus[i].active = Outstanding(getStatus[i].name)
    /\ \A r \in Requests : held[r] # NONE => activeRequests[held[r]] >= 1

\* C29 witness: two requests hold the same backend and its counter is two
C29_Witness ==
    \E b \in ProviderSet : activeRequests[b] = 2 /\ Outstanding(b) = 2

\* C30: eventual release.  When every pending step of an adapter, of a
\* stream's consumer and of the event loop is eventually taken and no new
\* request arrives, from some point on no request holds a slot and the
\* activeCount of every backend is 0: every enter has been followed by its
\* leave (a request holds its slot from enter until leave and enters once).
C30_EventualRelease ==
    <>[](/\ \A r \in Requests : held[r] = NONE
         /\ \A b \in ProviderSet : activeRequests[b] = 0)

\* C30 witness: every request has entered a backend and left it, one of them
\* by cancelling its stream, and every counter is at zero
C30_Witness ==
    /\ \A r \in Requests :
          pc[r] = "done" /\ Len(enters[r]) = 1 /\ leaves[r] = enters[r]
    /\ \E r \in Requests : outcome[r] = "cancelled"
    /\ \E r \in Requests : outcome[r] = "ok"
    /\ \A b \in ProviderSet : activeRequests[b] = 0

\* C31: a capacity skip still consumes a rate-limit slot.  When a request has
\* passed the rate-limit check of a backend and is then skipped because the
\* backend is at capacity, the request moves on unselected and no window
\* changes: the timestamp its check stored stays in the backend's window.
C31_SkipConsumesSlot ==
    [][\A r \in Requests :
          (/\ pc[r] = "rateCheck" /\ rateOk[r]
           /\ AtCapacity(SortedProviders[idx[r]])
           /\ pc'[r] # pc[r])
              => /\ sel'[r] = NONE
                 /\ idx'[r] = idx[r] + 1
                 /\ rateLimitTracker' = rateLimitTracker
                 /\ Len(rateLimitTracker'[SortedProviders[idx[r]]]) >= 1
      ]_vars

\* C31 witness: a request routed to another backend after a capacity skip has
\* left the skipped backend's window full, although only one request ever
\* entered that backend
C31_Witness ==
    \E r \in Requests, b \in ProviderSet :
        /\ sel[r] \in ProviderSet /\ sel[r] # b
        /\ adapterCalls[r] = <<sel[r]>>
        /\ Position(b) < Position(sel[r])
        /\ Cardinality({q \in Requests : enters[q] = <<b>>}) = 1
        /\ ConfigOf(b).rateLimitPerMinute >= 2
        /\ Len(rateLimitTracker[b]) = ConfigOf(b).rateLimitPerMinute
        /\ ~RateLimitPasses(b, now)

\* C32: bounded window.  In every state the stored rate-limit window of every
\* backend holds at most rateLimitPerMinute timestamps, whatever checks have
\* passed or been rejected and however the clock has advanced.
C32_BoundedWindow ==
    \A b \in ProviderSet :
        Len(rateLimitTracker[b]) <= ConfigOf(b).rateLimitPerMinute

\* C32 witness: a window that was filled, emptied by the passing of a minute
\* and filled again has just rejected a check, and holds exactly the limit
C32_Witness ==
    \E b \in ProviderSet :
        /\ pc[1] = "rateCheck" /\ ~rateOk[1]
        /\ SortedProviders[idx[1]] = b
        /\ ConfigOf(b).rateLimitPerMinute >= 1
        /\ Len(rateLimitTracker[b]) = ConfigOf(b).rateLimitPerMinute
        /\ rateLimitTracker[b][1] > WindowMs

Admission == <<activeRequests, rateLimitTracker>>

\* C34: lazy stream admission.  The call of stream() leaves the request
\* created, at no position of the selection loop, with no backend selected,
\* entered or called, and changes no counter and no window; dropping a
\* created stream does the same; selection starts at the first pull.
C34_LazyStreamAdmission ==
    [][\A r \in Requests :
          /\ (kind'[r] = "stream" /\ callsLeft'[r] # callsLeft[r])
                => /\ pc'[r] = "created" /\ idx'[r] = 0
                   /\ sel'[r] = NONE /\ held'[r] = NONE
                   /\ enters'[r] = <<>> /\ adapterCalls'[r] = <<>>
                   /\ Admission' = Admission
          /\ (pc[r] = "created" /\ pc'[r] = "done")
                => /\ outcome'[r] = "dropped"
                   /\ sel'[r] = NONE /\ held'[r] = NONE
                   /\ enters'[r] = <<>> /\ adapterCalls'[r] = <<>>
                   /\ Admission' = Admission
          /\ (pc[r] = "created" /\ pc'[r] \notin {"created", "done"})
                => /\ idx'[r] = 1
                   /\ pc'[r] \in {"availCheck", "selected"}
                   /\ Admission' = Admission
      ]_vars

\* C34 witness: after an earlier call has used a backend, a stream was created
\* and dropped unconsumed: it entered nothing and the window filled by the
\* earlier call is as that call left it
C34_Witness ==
    /\ pc[1] = "done" /\ outcome[1] = "dropped" /\ kind[1] = "stream"
    /\ enters[1] = <<>> /\ adapterCalls[1] = <<>>
    /\ callsLeft[1] = RateCalls - 2
    /\ \E b \in ProviderSet : Len(rateLimitTracker[b]) = 1
    /\ \A b \in ProviderSet : Len(rateLimitTracker[b]) <= 1 /\ activeRequests[b] = 0

\* C35: the router's stream is a pass-through.  What the consumer has received
\* is a prefix of what the adapter has yielded, at most the chunk in hand
\* short of it; whenever the router is suspended at its yield, closing or
\* completed, the two sequences are equal; and the router has ended normally
\* only when the adapter's generator has finished.
C35_PassThrough ==
    /\ Len(received) <= Len(emitted)
    /\ received = SubSeq(emitted, 1, Len(received))
    /\ Len(emitted) - Len(received) <= 1
    /\ rpc \in {"yielded", "closing", "cancelled", "finished"} => received = emitted
    /\ rpc = "finished" => apc = "finished"
    /\ rpc = "cancelled" => apc = "cancelled"

\* C35 witness: the adapter yielded start, content, content and an end chunk
\* and finished; the router has ended with the same four chunks received
C35_Witness ==
    /\ rpc = "finished"
    /\ emitted = <<"start", "content", "content", "end">>
    /\ received = emitted

\* a backend configured with maxConcurrent 0 or rateLimitPerMinute 0
ZeroLimited(b) ==
    ConfigOf(b).maxConcurrent = 0 \/ ConfigOf(b).rateLimitPerMinute = 0

\* C36: zero limits.  A backend configured with maxConcurrent 0 or with
\* rateLimitPerMinute 0 is never what selectProvider returns, is never
\* entered, its adapter is never called and its activeCount stays 0.
C36_ZeroLimitsNeverSelected ==
    \A b \in ProviderSet :
        ZeroLimited(b)
            => /\ activeRequests[b] = 0
               /\ \A r \in Requests :
                     /\ sel[r] # b
                     /\ held[r] # b
                     /\ \A i \in 1..Len(adapterCalls[r]) : adapterCalls[r][i] # b
                     /\ \A i \in 1..Len(enters[r]) : enters[r][i] # b

\* C36 witness: the first backend in priority order has maxConcurrent 0; its
\* rate-limit check passed, it was skipped, and the request was served by the
\* backend after it
C36_Witness ==
    \E b \in ProviderSet :
        /\ ConfigOf(b).maxConcurrent = 0
        /\ Position(b) = 1
        /\ Len(rateLimitTracker[b]) >= 1
        /\ pc[1] = "done" /\ outcome[1] = "ok"
        /\ idx[1] = 2
        /\ adapterCalls[1] = <<SortedProviders[2]>>

====
